---------------------------- MODULE Spec2Model ----------------------------
(***************************************************************************)
(* A model of request_logging/middleware.py: the two logger variants       *)
(* (Logger, ColourLogger), the construction of LoggingMiddleware from the  *)
(* Django settings, and its two hooks process_request / process_response.  *)
(*                                                                         *)
(* Python values are tagged records, so that `type(x) is not int`, `x in   *)
(* [...]` (which compares with ==) and str() / format() behave as they do  *)
(* in Python and not as the identity.                                      *)
(***************************************************************************)
EXTENDS Integers, Sequences, FiniteSets, TLC

VARIABLES
    py3,       \* TRUE: the interpreter is Python 3 (bytes is not str)
    settings,  \* django.conf.settings: the three REQUEST_LOGGING_* values
    mw,        \* the LoggingMiddleware object (or the ValueError of __init__)
    th,        \* per request-handling thread: the call in progress
    sink       \* the records handed to request_logger.log, in order

vars == <<py3, settings, mw, th, sink>>

(***************************************************************************)
(* Bounds of the model.                                                    *)
(***************************************************************************)
MaxLen == 3    \* longest body / message, in units

(***************************************************************************)
(* Module constants.                                                       *)
(***************************************************************************)
NOTSET == 0
DEBUG == 10
INFO == 20
WARNING == 30
ERROR == 40
CRITICAL == 50

DEFAULT_MAX_BODY_LENGTH == 50000

(***************************************************************************)
(* Python scalar values: a type tag and a number.  A str value carries the *)
(* number its digits spell ("100" is [t |-> "str", v |-> 100]).            *)
(***************************************************************************)
Unset == [t |-> "unset", v |-> 0]
PyInt(n) == [t |-> "int", v |-> n]
PyBool(b) == [t |-> "bool", v |-> IF b THEN 1 ELSE 0]
PyFloat(n) == [t |-> "float", v |-> n]
PyStr(n) == [t |-> "str", v |-> n]

IsNumber(a) == a.t \in {"int", "bool", "float"}

\* Python's ==: numbers compare by value across int, bool and float
\* (False == 0, 10.0 == 10); a str equals only a str.
PyEq(a, b) ==
    \/ IsNumber(a) /\ IsNumber(b) /\ a.v = b.v
    \/ a.t = "str" /\ b.t = "str" /\ a.v = b.v

DEFAULT_LOG_LEVEL == PyInt(DEBUG)
DEFAULT_COLORIZE == PyBool(TRUE)

\* getattr(settings, SETTING_NAMES[name], default)
Getattr(name, default) ==
    IF settings[name].t = "unset" THEN default ELSE settings[name]

(***************************************************************************)
(* Messages: str, bytes and dict values; str() and "{0}".format().         *)
(* A str or bytes value is a sequence of units, a dict a function.         *)
(***************************************************************************)
S(units) == [kind |-> "str", units |-> units, items |-> <<>>]
B(units) == [kind |-> "bytes", units |-> units, items |-> <<>>]
D(items) == [kind |-> "dict", units |-> <<>>, items |-> items]

\* repr() of a bytes value of printable, quote-free units: b'...'
BytesRepr(units) == <<"b", "'">> \o units \o <<"'">>

\* The characters of "{0}".format(v) for a str or bytes v: on Python 3 a
\* bytes value is formatted as its repr, on Python 2 bytes is str.
Format0(v) == IF py3 /\ v.kind = "bytes" THEN BytesRepr(v.units) ELSE v.units

\* str(msg), as Logger.log and ColourLogger._log apply it.
Str(msg) ==
    CASE msg.kind = "str" -> msg
      [] msg.kind = "bytes" -> S(Format0(msg))
      [] msg.kind = "dict" ->
            [kind |-> "dictrepr", units |-> <<>>, items |-> msg.items]

\* len(msg) and the truthiness of a str, bytes or dict value
PyLen(msg) ==
    IF msg.kind = "dict" THEN Cardinality(DOMAIN msg.items) ELSE Len(msg.units)

Truthy(msg) == PyLen(msg) > 0

Min(a, b) == IF a < b THEN a ELSE b
Max(a, b) == IF a > b THEN a ELSE b

\* msg[0:n]: a negative stop counts from the end, and both ends are clamped.
Slice0(msg, n) ==
    LET stop == IF n < 0 THEN Max(Len(msg.units) + n, 0)
                ELSE Min(n, Len(msg.units))
    IN  [msg EXCEPT !.units = SubSeq(msg.units, 1, stop)]

\* The literal "\n...\n" of the format string, unit by unit.
Marker == <<"\n", ".", ".", ".", "\n">>

(***************************************************************************)
(* Logger and ColourLogger.  A write is the pair of arguments handed to    *)
(* request_logger.log, with the colour handed to colorize ("none": the     *)
(* plain Logger does not call colorize).                                   *)
(***************************************************************************)
NoLogger == [kind |-> "none", log_colour |-> "", log_error_colour |-> ""]
PlainLogger == [kind |-> "Logger", log_colour |-> "", log_error_colour |-> ""]
ColourLogger(log_colour, log_error_colour) ==
    [kind |-> "ColourLogger", log_colour |-> log_colour,
     log_error_colour |-> log_error_colour]

Logger_log(level, msg) == [level |-> level, text |-> Str(msg), fg |-> "none"]

Logger_log_error(level, msg) == Logger_log(level, msg)

ColourLogger__log(level, msg, colour) ==
    [level |-> level, text |-> Str(msg), fg |-> colour]
\* a mutant of ColourLogger_log: > for >=
ColourLogger_log_gt(self, level, msg) ==
    LET colour == IF level.v > ERROR THEN self.log_error_colour
                  ELSE self.log_colour
    IN  ColourLogger__log(level, msg, colour)

ColourLogger_log(self, level, msg) ==
    LET colour == IF level.v >= ERROR THEN self.log_error_colour
                  ELSE self.log_colour
    IN  ColourLogger__log(level, msg, colour)

ColourLogger_log_error(self, level, msg) ==
    ColourLogger__log(level, msg, self.log_error_colour)

\* self.logger.log(...) / self.logger.log_error(...): method dispatch
log(self, level, msg) ==
    IF self.kind = "ColourLogger" THEN ColourLogger_log(self, level, msg)
    ELSE Logger_log(level, msg)

log_error(self, level, msg) ==
    IF self.kind = "ColourLogger" THEN ColourLogger_log_error(self, level, msg)
    ELSE Logger_log_error(level, msg)
\* a mutant of LoggerAfter: the forced colour is left in the object
LoggerAfter_sticky(self, write) ==
    IF self.kind = "ColourLogger" /\ write.fg = self.log_error_colour
    THEN [self EXCEPT !.log_colour = self.log_error_colour]
    ELSE self

\* What a call of log / log_error / _log leaves in the logger object: the
\* methods assign no attribute.
LoggerAfter(self, write) == self

(***************************************************************************)
(* LoggingMiddleware.__init__                                              *)
(***************************************************************************)
LogLevels ==
    {PyInt(NOTSET), PyInt(DEBUG), PyInt(INFO), PyInt(WARNING), PyInt(ERROR),
     PyInt(CRITICAL)}

\* self.log_level not in [logging.NOTSET, ..., logging.CRITICAL]
UnknownLevel(level) == ~ \E l \in LogLevels : PyEq(level, l)

\* type(x) is not bool / type(x) is not int: the exact type, so a bool is
\* no int here
NotBool(x) == x.t # "bool"
\* a mutant of NotInt: isinstance(x, int), which a bool passes
NotInt_isinstance(x) == x.t \notin {"int", "bool"}

NotInt(x) == x.t # "int"

Raised(what) ==
    [state |-> "error", error |-> what, log_level |-> Unset,
     max_body_length |-> Unset, logger |-> NoLogger]

Middleware__init__ ==
    LET log_level == Getattr("log_level", DEFAULT_LOG_LEVEL)
        enable_colorize == Getattr("colorize", DEFAULT_COLORIZE)
        max_body_length == Getattr("max_body_length",
                                   PyInt(DEFAULT_MAX_BODY_LENGTH))
    IN  IF UnknownLevel(log_level) THEN Raised("log_level")
        ELSE IF NotBool(enable_colorize) THEN Raised("colorize")
        ELSE IF NotInt(max_body_length) THEN Raised("max_body_length")
        ELSE [state |-> "ready", error |-> "",
              log_level |-> log_level,
              max_body_length |-> max_body_length,
              logger |-> IF enable_colorize.v = 1
                         THEN ColourLogger("cyan", "magenta")
                         ELSE PlainLogger]

NotConstructed ==
    [state |-> "absent", error |-> "", log_level |-> Unset,
     max_body_length |-> Unset, logger |-> NoLogger]

(***************************************************************************)
(* Requests and responses (the framework's objects, as the hooks read      *)
(* them).  META and _headers are dicts whose keys and string values are    *)
(* sequences of fragments, so that a prefix can be told from the rest.     *)
(* _headers maps a header's name to its value (Django keeps the pair of    *)
(* name and value under the lower-cased name), and response.get looks the  *)
(* name up in it; colorize is kept as the colour it is called with.        *)
(***************************************************************************)
NoneValue == [kind |-> "None", units |-> <<>>, items |-> <<>>]

NoRequest ==
    [method |-> "", full_path |-> "", META |-> <<>>, body |-> B(<<>>)]

NoResponse == [status_code |-> 0, _headers |-> <<>>, content |-> B(<<>>)]
\* a mutant of StartsWithHTTP: 'HTTP_' in k
StartsWithHTTP_anywhere(k) == \E i \in 1..Len(k) : k[i] = "HTTP_"

\* k.startswith('HTTP_'): case-sensitive, at the start only
StartsWithHTTP(k) == Len(k) >= 1 /\ k[1] = "HTTP_"

\* {k: v for k, v in request.META.items() if k.startswith('HTTP_')}
HeadersOf(request) ==
    [k \in {k2 \in DOMAIN request.META : StartsWithHTTP(k2)} |->
        request.META[k]]

\* response.get(name, alternate)
Response_get(response, name, alternate) ==
    IF name \in DOMAIN response._headers THEN response._headers[name]
    ELSE alternate

\* str.lower() on the fragments the model uses
Lower(fragment) ==
    CASE fragment = "APPLICATION/JSON" -> "application/json"
      [] fragment = "Application/Json" -> "application/json"
      [] fragment = "TEXT/PLAIN" -> "text/plain"
      [] OTHER -> fragment
\* a mutant of MatchesJson: the re.I flag dropped
MatchesJson_cased(value) == Len(value) >= 1 /\ value[1] = "application/json"

\* re.match('^application/json', value, re.I): a match at the start of the
\* value, whatever follows, ignoring case
MatchesJson(value) == Len(value) >= 1 /\ Lower(value[1]) = "application/json"

\* a mutant of InErrorRange: range(401, 600)
InErrorRange_401(status_code) == status_code > 400 /\ status_code < 600

\* response.status_code in range(400, 600)
InErrorRange(status_code) == status_code >= 400 /\ status_code < 600

(***************************************************************************)
(* LoggingMiddleware: the hooks.  Each hook is the sequence of writes it   *)
(* makes, in statement order, and the value it returns.                    *)
(***************************************************************************)
\* a mutant of _chunked_to_max: >= for >
_chunked_to_max_ge(self, msg) ==
    IF PyLen(msg) >= self.max_body_length.v
    THEN S(Format0(Slice0(msg, self.max_body_length.v)) \o Marker)
    ELSE msg

_chunked_to_max(self, msg) ==
    IF PyLen(msg) > self.max_body_length.v
    THEN S(Format0(Slice0(msg, self.max_body_length.v)) \o Marker)
    ELSE msg

process_request(self, request) ==
    LET method_path == S(<<request.method, " ", request.full_path>>)
        headers == D(HeadersOf(request))
    IN  <<log(self.logger, PyInt(INFO), method_path)>>
        \o (IF Truthy(headers)
            THEN <<log(self.logger, self.log_level, headers)>> ELSE <<>>)
        \o (IF Truthy(request.body)
            THEN <<log(self.logger, self.log_level,
                       _chunked_to_max(self, request.body))>>
            ELSE <<>>)
\* a mutant of _log_resp: an empty body is skipped, as process_request does
_log_resp_skip_empty(self, level, response) ==
    IF MatchesJson(Response_get(response, <<"Content-Type">>, <<>>))
    THEN <<log(self.logger, level, D(response._headers))>>
         \o (IF Truthy(response.content)
             THEN <<log(self.logger, level,
                        _chunked_to_max(self, response.content))>>
             ELSE <<>>)
    ELSE <<>>

_log_resp(self, level, response) ==
    IF MatchesJson(Response_get(response, <<"Content-Type">>, <<>>))
    THEN <<log(self.logger, level, D(response._headers)),
           log(self.logger, level, _chunked_to_max(self, response.content))>>
    ELSE <<>>

process_response(self, request, response) ==
    LET resp_log == S(<<request.method, " ", request.full_path, " - ",
                        ToString(response.status_code)>>)
    IN  IF InErrorRange(response.status_code)
        THEN <<log_error(self.logger, PyInt(INFO), resp_log)>>
             \o _log_resp(self, PyInt(ERROR), response)
        ELSE <<log(self.logger, PyInt(INFO), resp_log)>>
             \o _log_resp(self, self.log_level, response)
\* a mutant of process_response_result: the response comes back emptied
process_response_result_emptied(request, response) ==
    [response EXCEPT !.content = B(<<>>)]

\* return response
process_response_result(request, response) == response

(***************************************************************************)
(* Calls.  A call is an operation with its arguments; Writes is what the   *)
(* call hands to the sink given the object as it is when the statement     *)
(* runs, Result what it returns.                                           *)
(***************************************************************************)
Idle ==
    [pc |-> "idle", op |-> "", request |-> NoRequest, response |-> NoResponse,
     level |-> Unset, msg |-> NoneValue, n |-> 0, ret |-> NoneValue]

Writes(self, c) ==
    CASE c.op = "process_request" -> process_request(self, c.request)
      [] c.op = "process_response" ->
            process_response(self, c.request, c.response)
      [] c.op = "log" -> <<log(self.logger, c.level, c.msg)>>
      [] c.op = "log_error" -> <<log_error(self.logger, c.level, c.msg)>>
      [] OTHER -> <<>>

Result(self, c) ==
    CASE c.op = "process_response" ->
            process_response_result(c.request, c.response)
      [] c.op = "_chunked_to_max" -> _chunked_to_max(self, c.msg)
      [] OTHER -> NoneValue

Tagged(t, ws) == [i \in 1..Len(ws) |-> [by |-> t, w |-> ws[i]]]

RECURSIVE AfterWrites(_, _, _)
\* the logger object once the writes ws[i..] have been made
AfterWrites(logger, ws, i) ==
    IF i > Len(ws) THEN logger
    ELSE AfterWrites(LoggerAfter(logger, ws[i]), ws, i + 1)

(***************************************************************************)
(* The inputs the model draws from.                                        *)
(***************************************************************************)
\* Distinct units, so that a prefix tells how many units were kept.
Alphabet == <<"a", "b", "c", "d", "e", "f">>

Units == {SubSeq(Alphabet, 1, n) : n \in 0..MaxLen}

Threads == {"t1"}
ThreadsC == {"t1", "t2"}

LevelSettings ==
    {Unset, PyInt(NOTSET), PyInt(DEBUG), PyInt(INFO), PyInt(WARNING),
     PyInt(ERROR), PyInt(CRITICAL), PyFloat(DEBUG), PyBool(FALSE),
     PyInt(5), PyInt(15), PyStr(DEBUG)}

ColorizeSettings == {Unset, PyBool(TRUE), PyBool(FALSE), PyInt(1), PyStr(0)}

MaxBodySettings ==
    {Unset, PyInt(-1), PyInt(0), PyInt(1), PyInt(2), PyStr(100), PyBool(TRUE),
     PyFloat(2)}

Settings ==
    [log_level : LevelSettings, colorize : ColorizeSettings,
     max_body_length : MaxBodySettings]

\* the settings of the interleaving specification
SettingsC ==
    [log_level : {Unset, PyInt(ERROR)}, colorize : {Unset, PyBool(FALSE)},
     max_body_length : {PyInt(1)}]

Methods == {"GET", "POST"}
Paths == {"/x?y=1"}

Metas ==
    { <<>>,
      (<<"HTTP_", "HOST">> :> <<"h">>),
      (<<"SERVER_", "NAME">> :> <<"s">>),
      (<<"http_", "host">> :> <<"h">>),
      (<<"HTTP_", "HOST">> :> <<"h">>) @@ (<<"SERVER_", "NAME">> :> <<"s">>)
        @@ (<<"X_", "HTTP_", "Y">> :> <<"y">>) }

Requests ==
    [method : Methods, full_path : Paths, META : Metas,
     body : {B(u) : u \in Units}]

\* process_response reads the method and the path of its request only
BareRequests ==
    [method : {"POST"}, full_path : Paths, META : {<<>>}, body : {B(<<>>)}]

ContentTypes ==
    { <<"application/json">>,
      <<"Application/Json", "; charset=utf-8">>,
      <<"application/json", "-patch+json">>,
      <<"text/plain">>,
      <<"text/plain; ", "application/json">> }

HeaderMaps ==
    {<<>>, (<<"X-Id">> :> <<"7">>)}
    \cup {(<<"Content-Type">> :> ct) : ct \in ContentTypes}

StatusCodes == {200, 399, 400, 404, 599, 600}

Responses ==
    [status_code : StatusCodes, _headers : HeaderMaps,
     content : {B(u) : u \in Units}]

RequestsC ==
    [method : {"GET"}, full_path : Paths,
     META : {<<>>, (<<"HTTP_", "HOST">> :> <<"h">>)},
     body : {B(<<>>), B(<<"a", "b">>)}]

ResponsesC ==
    [status_code : {200, 404},
     _headers : {(<<"Content-Type">> :> <<"application/json">>),
                 (<<"Content-Type">> :> <<"text/plain">>)},
     content : {B(<<"a", "b">>)}]

\* the severities log / log_error are called with directly
Severities ==
    {PyInt(NOTSET), PyInt(DEBUG), PyInt(INFO), PyInt(WARNING), PyInt(39),
     PyInt(ERROR), PyInt(41), PyInt(CRITICAL)}

Messages == {S(u) : u \in Units} \cup {B(u) : u \in Units}

LogMessages == {S(<<"m">>), B(<<"m">>), D((<<"k">> :> <<"v">>))}

(***************************************************************************)
(* Initial states: nothing constructed, no call made, nothing written.     *)
(***************************************************************************)
Init ==
    /\ py3 \in BOOLEAN
    /\ settings \in Settings
    /\ mw = NotConstructed
    /\ th = [t \in Threads |-> Idle]
    /\ sink = <<>>

InitC ==
    /\ py3 \in BOOLEAN
    /\ settings \in SettingsC
    /\ mw = NotConstructed
    /\ th = [t \in ThreadsC |-> Idle]
    /\ sink = <<>>

(***************************************************************************)
(* Actions.                                                                *)
(***************************************************************************)
\* The framework constructs the middleware once, at start-up.
Construct ==
    /\ mw.state = "absent"
    /\ mw' = Middleware__init__
    /\ UNCHANGED <<py3, settings, th, sink>>

\* The effect of a whole call c by thread t, start to return.
Call(t, c) ==
    LET ws == Writes(mw, c)
    IN  /\ sink' = sink \o Tagged(t, ws)
        /\ mw' = [mw EXCEPT !.logger = AfterWrites(mw.logger, ws, 1)]
        /\ th' = [th EXCEPT ![t] = [c EXCEPT !.pc = "done", !.n = Len(ws),
                                             !.ret = Result(mw, c)]]

\* The framework calls a hook of the constructed middleware.
ProcessRequest(t, request) ==
    /\ mw.state = "ready"
    /\ th[t].pc = "idle"
    /\ Call(t, [Idle EXCEPT !.op = "process_request", !.request = request])
    /\ UNCHANGED <<py3, settings>>

ProcessResponse(t, request, response) ==
    /\ mw.state = "ready"
    /\ th[t].pc = "idle"
    /\ Call(t, [Idle EXCEPT !.op = "process_response", !.request = request,
                            !.response = response])
    /\ UNCHANGED <<py3, settings>>

\* Direct calls of the logger's two methods and of the truncation.
LoggerLog(t, level, msg) ==
    /\ mw.state = "ready"
    /\ th[t].pc = "idle"
    /\ Call(t, [Idle EXCEPT !.op = "log", !.level = level, !.msg = msg])
    /\ UNCHANGED <<py3, settings>>

LoggerLogError(t, level, msg) ==
    /\ mw.state = "ready"
    /\ th[t].pc = "idle"
    /\ Call(t, [Idle EXCEPT !.op = "log_error", !.level = level, !.msg = msg])
    /\ UNCHANGED <<py3, settings>>

ChunkedToMax(t, msg) ==
    /\ mw.state = "ready"
    /\ th[t].pc = "idle"
    /\ Call(t, [Idle EXCEPT !.op = "_chunked_to_max", !.msg = msg])
    /\ UNCHANGED <<py3, settings>>

Next ==
    \/ Construct
    \/ \E t \in Threads, request \in Requests : ProcessRequest(t, request)
    \/ \E t \in Threads, request \in BareRequests, response \in Responses :
          ProcessResponse(t, request, response)
    \/ \E t \in Threads, level \in Severities, msg \in LogMessages :
          LoggerLog(t, level, msg)
    \/ \E t \in Threads, level \in Severities, msg \in LogMessages :
          LoggerLogError(t, level, msg)
    \/ \E t \in Threads, msg \in Messages : ChunkedToMax(t, msg)

Spec == Init /\ [][Next]_vars

(***************************************************************************)
(* Interleaving: each thread serves one request; the framework calls a     *)
(* hook, the hook's writes happen one at a time, and other threads' writes *)
(* may come in between.                                                    *)
(***************************************************************************)
Begin(t, c) == th' = [th EXCEPT ![t] = [c EXCEPT !.pc = "run"]]

BeginRequest(t, request) ==
    /\ mw.state = "ready"
    /\ th[t].pc = "idle"
    /\ Begin(t, [Idle EXCEPT !.op = "process_request", !.request = request])
    /\ UNCHANGED <<py3, settings, mw, sink>>

BeginResponse(t, request, response) ==
    /\ mw.state = "ready"
    /\ th[t].pc = "idle"
    /\ Begin(t, [Idle EXCEPT !.op = "process_response", !.request = request,
                             !.response = response])
    /\ UNCHANGED <<py3, settings, mw, sink>>

\* The next logging statement of t's hook, evaluated on the object as it is.
Step(t) ==
    /\ th[t].pc = "run"
    /\ LET ws == Writes(mw, th[t])
       IN  /\ th[t].n < Len(ws)
           /\ sink' = Append(sink, [by |-> t, w |-> ws[th[t].n + 1]])
           /\ mw' = [mw EXCEPT
                       !.logger = LoggerAfter(mw.logger, ws[th[t].n + 1])]
           /\ th' = [th EXCEPT ![t].n = th[t].n + 1]
    /\ UNCHANGED <<py3, settings>>

Return(t) ==
    /\ th[t].pc = "run"
    /\ th[t].n >= Len(Writes(mw, th[t]))
    /\ th' = [th EXCEPT ![t].pc = "done", ![t].ret = Result(mw, th[t])]
    /\ UNCHANGED <<py3, settings, mw, sink>>

NextC ==
    \/ Construct
    \/ \E t \in ThreadsC, request \in RequestsC : BeginRequest(t, request)
    \/ \E t \in ThreadsC, request \in BareRequests, response \in ResponsesC :
          BeginResponse(t, request, response)
    \/ \E t \in ThreadsC : Step(t)
    \/ \E t \in ThreadsC : Return(t)

SpecC == InitC /\ [][NextC]_vars

(***************************************************************************)
(* The claims.  Each is stated on the writes a finished call has made and  *)
(* on what it was given, in the words of the specification.                *)
(***************************************************************************)
\* the writes thread t has made, in order
Mine(t) ==
    LET own == SelectSeq(sink, LAMBDA e : e.by = t)
    IN  [i \in 1..Len(own) |-> own[i].w]

Done(t, op) == th[t].pc = "done" /\ th[t].op = op

ColourOn == mw.logger.kind = "ColourLogger"

\* the configured minimum log level and maximum body length
ConfiguredLevel ==
    IF settings.log_level.t = "unset" THEN PyInt(10) ELSE settings.log_level

ConfiguredMax ==
    IF settings.max_body_length.t = "unset" THEN PyInt(50000)
    ELSE settings.max_body_length

\* the colour tag of a write at severity level through emit / emit_forced
NormalTag(level) ==
    IF ~ColourOn THEN "none" ELSE IF level.v >= 40 THEN "magenta" ELSE "cyan"

ForcedTag == IF ColourOn THEN "magenta" ELSE "none"

\* the content type is application/json as a case-insensitive prefix
JsonTyped(response) ==
    /\ <<"Content-Type">> \in DOMAIN response._headers
    /\ response._headers[<<"Content-Type">>][1] \in
          {"application/json", "Application/Json", "APPLICATION/JSON"}

StatusLine(request, response) ==
    S(<<request.method, " ", request.full_path, " - ",
        ToString(response.status_code)>>)

HeadersText(items) == [kind |-> "dictrepr", units |-> <<>>, items |-> items]

BodyText(body) == Str(_chunked_to_max(mw, body))

\* how a truncated prefix is shown: bytes on Python 3 as b'...'
Shown(m, prefix) ==
    IF py3 /\ m.kind = "bytes" THEN <<"b", "'">> \o prefix \o <<"'">>
    ELSE prefix

\* C1 (as amended): for every message m and limit N, if len(m) <= N the
\* truncation returns m unchanged; if len(m) > N it returns m[0:N] (for a
\* negative N, which construction accepts, all but the last -N units; a
\* bytes prefix on Python 3 shown as its repr) followed by the marker
\* "\n...\n", which is 5 units long: the length is that of the shown prefix
\* plus 5, and N + 5 for a text message and N >= 0.
C1_Truncation ==
    \A t \in DOMAIN th :
        Done(t, "_chunked_to_max") =>
            LET m == th[t].msg
                N == ConfiguredMax.v
                r == th[t].ret
                K == IF N >= 0 THEN N
                     ELSE IF Len(m.units) + N > 0 THEN Len(m.units) + N ELSE 0
                shown == Shown(m, SubSeq(m.units, 1, K))
            IN  IF Len(m.units) <= N THEN r = m
                ELSE /\ r.kind = "str"
                     /\ r.units = shown \o <<"\n", ".", ".", ".", "\n">>
                     /\ Len(r.units) = Len(shown) + 5
                     /\ (N >= 0 /\ ~(py3 /\ m.kind = "bytes")
                            => Len(r.units) = N + 5)

\* C1 as claimed, for a positive limit N and a text message m: if
\* len(m) <= N the output is m; if len(m) > N it is m[0:N] followed by the
\* marker "\n...\n" and has length N + 4.
C1_Original ==
    \A t \in DOMAIN th :
        Done(t, "_chunked_to_max") /\ ConfiguredMax.v > 0
        /\ th[t].msg.kind = "str" =>
            LET m == th[t].msg
                N == ConfiguredMax.v
                r == th[t].ret
            IN  IF Len(m.units) <= N THEN r = m
                ELSE /\ r.units = SubSeq(m.units, 1, N)
                                    \o <<"\n", ".", ".", ".", "\n">>
                     /\ Len(r.units) = N + 4

\* C1 witness: a text of 3 units was cut to a limit of 2.
C1_Witness ==
    \E t \in DOMAIN th :
        /\ Done(t, "_chunked_to_max")
        /\ th[t].msg = S(<<"a", "b", "c">>)
        /\ mw.max_body_length = PyInt(2)
        /\ th[t].ret.units = <<"a", "b", "\n", ".", ".", ".", "\n">>

\* C2: on_response with a status code in [400, 599] (400 and 599 included,
\* 399 and 600 not) emits the status line through emit_forced at info
\* severity and then, only for a content type that matches application/json
\* as a case-insensitive prefix, the headers and the truncated body at error
\* severity, whatever the configured level.
C2_ErrorResponse ==
    \A t \in DOMAIN th :
        Done(t, "process_response") =>
            LET c == th[t]
                ws == Mine(t)
                inRange == c.response.status_code \in 400..599
            IN  /\ inRange =>
                    /\ Len(ws) >= 1
                    /\ ws[1] = [level |-> PyInt(20),
                                text |-> StatusLine(c.request, c.response),
                                fg |-> ForcedTag]
                    /\ IF JsonTyped(c.response)
                       THEN /\ Len(ws) = 3
                            /\ ws[2] = [level |-> PyInt(40),
                                        text |-> HeadersText(c.response._headers),
                                        fg |-> ForcedTag]
                            /\ ws[3] = [level |-> PyInt(40),
                                        text |-> BodyText(c.response.content),
                                        fg |-> ForcedTag]
                       ELSE Len(ws) = 1
                /\ ~inRange /\ ColourOn => ws[1].fg = "cyan"

\* C2 witness: a 599 JSON response under a debug configuration with colour.
C2_Witness ==
    \E t \in DOMAIN th :
        /\ Done(t, "process_response")
        /\ th[t].response.status_code = 599
        /\ JsonTyped(th[t].response)
        /\ ColourOn
        /\ mw.log_level = PyInt(10)
        /\ Len(Mine(t)) = 3
        /\ Mine(t)[1].fg = "magenta" /\ Mine(t)[1].level = PyInt(20)
        /\ Mine(t)[3].level = PyInt(40)

\* C3: on_response with a status code outside [400, 599] emits the status
\* line through the normal emit at info severity, then the headers and the
\* truncated body at the configured minimum level, but only for a content
\* type that matches application/json as a case-insensitive prefix; for
\* any other or an absent content type the status line is the only line.
C3_NormalResponse ==
    \A t \in DOMAIN th :
        Done(t, "process_response")
        /\ th[t].response.status_code \notin 400..599 =>
            LET c == th[t]
                ws == Mine(t)
            IN  /\ Len(ws) >= 1
                /\ ws[1] = [level |-> PyInt(20),
                            text |-> StatusLine(c.request, c.response),
                            fg |-> NormalTag(PyInt(20))]
                /\ IF JsonTyped(c.response)
                   THEN /\ Len(ws) = 3
                        /\ ws[2] = [level |-> ConfiguredLevel,
                                    text |-> HeadersText(c.response._headers),
                                    fg |-> NormalTag(ConfiguredLevel)]
                        /\ ws[3] = [level |-> ConfiguredLevel,
                                    text |-> BodyText(c.response.content),
                                    fg |-> NormalTag(ConfiguredLevel)]
                   ELSE Len(ws) = 1

\* C3 witness: a 399 response typed "Application/Json; charset=utf-8" under
\* a warning configuration gave three lines, the last two at warning.
C3_Witness ==
    \E t \in DOMAIN th :
        /\ Done(t, "process_response")
        /\ th[t].response.status_code = 399
        /\ th[t].response._headers =
              (<<"Content-Type">> :> <<"Application/Json", "; charset=utf-8">>)
        /\ settings.log_level = PyInt(30)
        /\ Len(Mine(t)) = 3
        /\ Mine(t)[2].level = PyInt(30)

\* C4: on_request emits, in this order: always the line "<METHOD>
\* <full path>" at info severity; the mapping of exactly the metadata
\* entries whose key starts with HTTP_, at the configured level, if and only
\* if there is such an entry; the truncated body at the configured level if
\* and only if the body is not empty.  With neither, exactly one line.
C4_RequestLines ==
    \A t \in DOMAIN th :
        Done(t, "process_request") =>
            LET c == th[t]
                ws == Mine(t)
                hs == {k \in DOMAIN c.request.META : k[1] = "HTTP_"}
                hasHeaders == hs # {}
                hasBody == Len(c.request.body.units) > 0
            IN  /\ Len(ws) = 1 + (IF hasHeaders THEN 1 ELSE 0)
                               + (IF hasBody THEN 1 ELSE 0)
                /\ ws[1] = [level |-> PyInt(20),
                            text |-> S(<<c.request.method, " ",
                                         c.request.full_path>>),
                            fg |-> NormalTag(PyInt(20))]
                /\ hasHeaders =>
                      ws[2] = [level |-> ConfiguredLevel,
                               text |-> HeadersText(
                                   [k \in hs |-> c.request.META[k]]),
                               fg |-> NormalTag(ConfiguredLevel)]
                /\ hasBody =>
                      ws[Len(ws)] = [level |-> ConfiguredLevel,
                                     text |-> BodyText(c.request.body),
                                     fg |-> NormalTag(ConfiguredLevel)]

\* C4 witness: a request with HTTP_HOST among other metadata and a body of
\* two units gave three lines, the second holding HTTP_HOST alone.
C4_Witness ==
    \E t \in DOMAIN th :
        /\ Done(t, "process_request")
        /\ Cardinality(DOMAIN th[t].request.META) = 3
        /\ th[t].request.body = B(<<"a", "b">>)
        /\ Len(Mine(t)) = 3
        /\ DOMAIN Mine(t)[2].text.items = {<<"HTTP_", "HOST">>}

\* C5: with colour annotation, emit_forced applies the error tag whatever
\* the severity s, and emit applies the error tag if and only if s >= error
\* and the normal tag otherwise; the plain variant applies no tag; every
\* variant writes the message once, at the severity s it was given.
C5_ColourSelection ==
    \A t \in DOMAIN th :
        LET c == th[t]
        IN  /\ Done(t, "log") =>
                Mine(t) = <<[level |-> c.level, text |-> Str(c.msg),
                             fg |-> IF ~ColourOn THEN "none"
                                    ELSE IF c.level.v >= 40 THEN "magenta"
                                    ELSE "cyan"]>>
            /\ Done(t, "log_error") =>
                Mine(t) = <<[level |-> c.level, text |-> Str(c.msg),
                             fg |-> IF ColourOn THEN "magenta" ELSE "none"]>>

\* C5 witness: emit_forced at debug severity wrote with the error tag, at
\* debug severity.
C5_Witness ==
    \E t \in DOMAIN th :
        /\ Done(t, "log_error")
        /\ th[t].level = PyInt(10)
        /\ ColourOn
        /\ Len(Mine(t)) = 1
        /\ Mine(t)[1].fg = "magenta" /\ Mine(t)[1].level = PyInt(10)

\* the three settings as the specification calls them valid: absent, or a
\* value equal to one of the six levels / a boolean / an integer
LevelRecognized ==
    \/ settings.log_level.t = "unset"
    \/ /\ settings.log_level.t \in {"int", "bool", "float"}
       /\ settings.log_level.v \in {0, 10, 20, 30, 40, 50}

ColourFlagBoolean == settings.colorize.t \in {"unset", "bool"}

MaxLengthInteger == settings.max_body_length.t \in {"unset", "int"}

C7_PositiveMaxBody ==
    mw.state = "ready" =>
        mw.max_body_length.t = "int" /\ mw.max_body_length.v > 0

\* C8: on_response returns the very response it was given, with status
\* code, headers and body unchanged, on the error and the non-error branch,
\* for every status code and content type.
C8_PassThrough ==
    \A t \in DOMAIN th :
        Done(t, "process_response") =>
            /\ th[t].ret = th[t].response
            /\ th[t].ret.status_code = th[t].response.status_code
            /\ th[t].ret._headers = th[t].response._headers
            /\ th[t].ret.content = th[t].response.content

\* C8 witness: a 404 JSON response with a body of three units came back
\* after its three lines were written.
C8_Witness ==
    \E t \in DOMAIN th :
        /\ Done(t, "process_response")
        /\ th[t].response.status_code = 404
        /\ JsonTyped(th[t].response)
        /\ th[t].response.content = B(<<"a", "b", "c">>)
        /\ Len(Mine(t)) = 3
        /\ th[t].ret = th[t].response

\* C9: no call changes the configuration, the sink adapter or its colour
\* tags after construction, and so under any interleaving the lines written
\* for a request (content, severity, colour, order) are those the same call
\* writes alone on the freshly constructed formatter.
C9_NoSharedState ==
    /\ mw.state = "ready" => mw = Middleware__init__
    /\ \A t \in DOMAIN th :
          th[t].pc \in {"run", "done"} =>
              LET alone == Writes(Middleware__init__, th[t])
              IN  /\ th[t].n <= Len(alone)
                  /\ Mine(t) = SubSeq(alone, 1, th[t].n)
                  /\ th[t].pc = "done" => th[t].n = Len(alone)

\* C9 witness: two calls finished whose writes interleaved in the sink, the
\* first of them an error response written with the forced tag.
C9_Witness ==
    /\ \A t \in DOMAIN th : th[t].pc = "done"
    /\ Len(sink) >= 4
    /\ sink[1].by = "t1" /\ sink[2].by = "t2" /\ sink[3].by = "t1"
    /\ sink[1].w.fg = "magenta"
    /\ sink[2].w.fg = "cyan"

\* C10: every on_response call makes exactly 1 or exactly 3 writes, never
\* 2: the status line first, then the headers line and the body line
\* together or not at all, in that order; for a JSON-typed response the body
\* line is written even when the body is empty.
C10_OneOrThree ==
    \A t \in DOMAIN th :
        Done(t, "process_response") =>
            LET c == th[t]
                ws == Mine(t)
            IN  /\ Len(ws) \in {1, 3}
                /\ ws[1].text = StatusLine(c.request, c.response)
                /\ Len(ws) = 3 <=> JsonTyped(c.response)
                /\ Len(ws) = 3 =>
                      /\ ws[2].text = HeadersText(c.response._headers)
                      /\ ws[3].text = BodyText(c.response.content)
                      /\ ws[2].level = ws[3].level

\* C10 witness: a JSON-typed response with an empty body gave three lines,
\* the third an empty text.
C10_Witness ==
    \E t \in DOMAIN th :
        /\ Done(t, "process_response")
        /\ JsonTyped(th[t].response)
        /\ th[t].response.content = B(<<>>)
        /\ mw.max_body_length.v >= 0
        /\ Len(Mine(t)) = 3
        /\ Mine(t)[3].text.units = (IF py3 THEN <<"b", "'", "'">> ELSE <<>>)

=============================================================================
